---- MODULE Spec2Model ----
(***************************************************************************)
(* ClawdVault bonding-curve program (programs/clawdvault/src/lib.rs).      *)
(*                                                                         *)
(* State: the Config account, one BondingCurve account per mint, the       *)
(* lamports of the wallets, the lamports each SOL vault holds above its    *)
(* rent deposit, and the SPL token balances per mint and owner.            *)
(* One action per instruction.  An instruction either commits all of its   *)
(* transfers and field updates or, on any error, none of them: that is the *)
(* transaction boundary of the runtime.                                    *)
(*                                                                         *)
(* Magnitudes.  TLC integers are 32 bit, so lamport and token quantities   *)
(* and the machine word are scaled down; the basis-point constants are     *)
(* the program's own.  The ratios GRADUATION_THRESHOLD / INITIAL_VIRTUAL_  *)
(* SOL = 4 and INITIAL_VIRTUAL_TOKENS = TOTAL_SUPPLY are kept.  u64        *)
(* arithmetic is modelled with word size U64_MAX + 1: checked_add,         *)
(* checked_sub, checked_mul fail outside 0..U64_MAX and `as u64` reduces   *)
(* modulo U64_MAX + 1.  A u128 product of two u64 values never overflows.  *)
(***************************************************************************)
EXTENDS Integers, Sequences, FiniteSets, TLC

\* ------------------------------------------------------------------------
\* Program constants (scaled, see above)
\* ------------------------------------------------------------------------
TOTAL_SUPPLY == 2000000
INITIAL_VIRTUAL_SOL == 100
INITIAL_VIRTUAL_TOKENS == TOTAL_SUPPLY
GRADUATION_THRESHOLD == 400
PROTOCOL_FEE_BPS == 50
CREATOR_FEE_BPS == 50
TOTAL_FEE_BPS == 100
BPS_DENOMINATOR == 10000
U64_MAX == 134217727

\* ------------------------------------------------------------------------
\* Bounds of the exploration
\* ------------------------------------------------------------------------
MaxOps == 4
StartLamports == 1000

\* ------------------------------------------------------------------------
\* Accounts and inputs
\* ------------------------------------------------------------------------
Mints == {"mintA", "mintB"}
Signers == {"admin", "alice"}
Wallets == {"admin", "alice", "treasury", "raydium"}
\* A token account is identified by (mint, owner); the curve PDA of a mint
\* is named by the mint it is derived from.
Owners == Wallets \cup Mints
NoKey == "none"

\* Inputs.  Each pair is <<amount, minimum output>>; the minimum is either
\* no floor or one no trade can meet.
Traders == {"alice"}
Unmeetable == 3000000
\* The least initial_buy_lamports whose product with BPS_DENOMINATOR -
\* TOTAL_FEE_BPS leaves the machine word
Oversized == (U64_MAX \div (BPS_DENOMINATOR - TOTAL_FEE_BPS)) + 1
\* What a buy of 250 delivers on a curve created without an initial buy
FreshOut == INITIAL_VIRTUAL_TOKENS
               - ((INITIAL_VIRTUAL_SOL * INITIAL_VIRTUAL_TOKENS) \div (INITIAL_VIRTUAL_SOL + 250))
BuyInputs ==
    {<<0, 0>>, <<1, 0>>, <<250, 0>>, <<404, 0>>, <<250, Unmeetable>>,
     <<250, FreshOut>>, <<250, FreshOut + 1>>}
\* <<lengths of name, symbol and uri, initial_buy_lamports>>
CreateInputs ==
    {<<<<32, 10, 200>>, 0>>, <<<<32, 10, 200>>, 250>>, <<<<32, 10, 200>>, 404>>,
     <<<<33, 10, 200>>, 0>>, <<<<32, 11, 200>>, 0>>, <<<<32, 10, 201>>, 0>>,
     <<<<32, 10, 200>>, Oversized>>}

VARIABLES config, curves, lamports, solVault, tokenBal, last, nops

vars == <<config, curves, lamports, solVault, tokenBal, last, nops>>

\* ------------------------------------------------------------------------
\* u64 arithmetic
\* ------------------------------------------------------------------------
InU64(x) == x >= 0 /\ x <= U64_MAX
AsU64(x) == x % (U64_MAX + 1)

\* amount.checked_mul(bps)?.checked_div(BPS_DENOMINATOR)?; -1 is None
bps_of_mut(amount, bps) ==
    IF InU64(amount * bps) THEN (amount * bps + BPS_DENOMINATOR - 1) \div BPS_DENOMINATOR ELSE -1
bps_of(amount, bps) ==
    IF InU64(amount * bps) THEN (amount * bps) \div BPS_DENOMINATOR ELSE -1

\* ------------------------------------------------------------------------
\* Accounts
\* ------------------------------------------------------------------------
EmptyConfig ==
    [initialized |-> FALSE, authority |-> NoKey, fee_recipient |-> NoKey,
     total_tokens_created |-> 0, total_volume_sol |-> 0]

EmptyCurve ==
    [initialized |-> FALSE, creator |-> NoKey, mint |-> NoKey,
     virtual_sol_reserves |-> 0, virtual_token_reserves |-> 0,
     real_sol_reserves |-> 0, real_token_reserves |-> 0,
     token_total_supply |-> 0, graduated |-> FALSE,
     migrated_to_raydium |-> FALSE, created_at |-> 0]

\* The bump of the SOL vault PDA of a mint.  Both mints of the model have
\* the same bump, the case in which the seeds constraint of Buy and Sell
\* accepts the vault of one mint next to the curve of the other.
sol_vault_bump(m) == 255

NoCall ==
    [op |-> "none", err |-> "Ok", signer |-> NoKey, curve |-> NoKey, mint |-> NoKey,
     amount |-> 0, min_out |-> 0, pre |-> EmptyCurve,
     requested |-> 0, gross |-> 0, out |-> 0, actual |-> 0,
     total_fee |-> 0, protocol_fee |-> 0, creator_fee |-> 0,
     capped |-> FALSE, events |-> <<>>, cpi_issued |-> 0]

\* ------------------------------------------------------------------------
\* buy: the computation of lines 264-315 (every check made before the
\* first transfer), on the curve record c
\* ------------------------------------------------------------------------
QuoteErr(e) ==
    [err |-> e, new_virtual_sol |-> 0, new_virtual_tokens |-> 0, tokens_out |-> 0,
     total_fee |-> 0, protocol_fee |-> 0, creator_fee |-> 0, sol_to_curve |-> 0]

\* invariant.checked_div(divisor)? as u64 (lines 287-289, 430-432, 517-519)
curve_quotient_mut(invariant, divisor) == AsU64((invariant + divisor - 1) \div divisor)
curve_quotient(invariant, divisor) == AsU64(invariant \div divisor)

\* lines 295 and 477: require!(out >= min_out, SlippageExceeded)
meets_floor_mut(out, min_out) == out > min_out
meets_floor(out, min_out) == out >= min_out

\* lines 269 and 419: require!(!curve.graduated, AlreadyGraduated)
closed_for_trading_mut(c) == c.migrated_to_raydium
closed_for_trading(c) == c.graduated

buy_quote_mut(c, sol_amount, min_tokens_out) ==
    LET old_virtual_sol == c.virtual_sol_reserves
        old_virtual_tokens == c.virtual_token_reserves
        old_real_tokens == c.real_token_reserves
        new_virtual_sol == old_virtual_sol + sol_amount
        invariant == INITIAL_VIRTUAL_SOL * INITIAL_VIRTUAL_TOKENS
        new_virtual_tokens == curve_quotient(invariant, new_virtual_sol)
        tokens_out == old_virtual_tokens - new_virtual_tokens
        total_fee == bps_of(sol_amount, TOTAL_FEE_BPS)
        protocol_fee == bps_of(sol_amount, PROTOCOL_FEE_BPS)
        creator_fee == total_fee - protocol_fee
        sol_to_curve == sol_amount - total_fee
    IN  IF sol_amount = 0 THEN QuoteErr("ZeroAmount")
        ELSE IF closed_for_trading(c) THEN QuoteErr("AlreadyGraduated")
        ELSE IF ~InU64(new_virtual_sol) THEN QuoteErr("MathOverflow")
        ELSE IF tokens_out < 0 THEN QuoteErr("MathOverflow")
        ELSE IF ~meets_floor(tokens_out, min_tokens_out) THEN QuoteErr("SlippageExceeded")
        ELSE IF ~(tokens_out <= old_real_tokens) THEN QuoteErr("InsufficientLiquidity")
        ELSE IF total_fee < 0 \/ protocol_fee < 0 THEN QuoteErr("MathOverflow")
        ELSE IF creator_fee < 0 \/ sol_to_curve < 0 THEN QuoteErr("MathOverflow")
        ELSE [err |-> "Ok", new_virtual_sol |-> new_virtual_sol,
              new_virtual_tokens |-> new_virtual_tokens, tokens_out |-> tokens_out,
              total_fee |-> total_fee, protocol_fee |-> protocol_fee,
              creator_fee |-> creator_fee, sol_to_curve |-> sol_to_curve]
buy_quote(c, sol_amount, min_tokens_out) ==
    LET old_virtual_sol == c.virtual_sol_reserves
        old_virtual_tokens == c.virtual_token_reserves
        old_real_tokens == c.real_token_reserves
        new_virtual_sol == old_virtual_sol + sol_amount
        invariant == old_virtual_sol * old_virtual_tokens
        new_virtual_tokens == curve_quotient(invariant, new_virtual_sol)
        tokens_out == old_virtual_tokens - new_virtual_tokens
        total_fee == bps_of(sol_amount, TOTAL_FEE_BPS)
        protocol_fee == bps_of(sol_amount, PROTOCOL_FEE_BPS)
        creator_fee == total_fee - protocol_fee
        sol_to_curve == sol_amount - total_fee
    IN  IF sol_amount = 0 THEN QuoteErr("ZeroAmount")
        ELSE IF closed_for_trading(c) THEN QuoteErr("AlreadyGraduated")
        ELSE IF ~InU64(new_virtual_sol) THEN QuoteErr("MathOverflow")
        ELSE IF tokens_out < 0 THEN QuoteErr("MathOverflow")
        ELSE IF ~meets_floor(tokens_out, min_tokens_out) THEN QuoteErr("SlippageExceeded")
        ELSE IF ~(tokens_out <= old_real_tokens) THEN QuoteErr("InsufficientLiquidity")
        ELSE IF total_fee < 0 \/ protocol_fee < 0 THEN QuoteErr("MathOverflow")
        ELSE IF creator_fee < 0 \/ sol_to_curve < 0 THEN QuoteErr("MathOverflow")
        ELSE [err |-> "Ok", new_virtual_sol |-> new_virtual_sol,
              new_virtual_tokens |-> new_virtual_tokens, tokens_out |-> tokens_out,
              total_fee |-> total_fee, protocol_fee |-> protocol_fee,
              creator_fee |-> creator_fee, sol_to_curve |-> sol_to_curve]

\* lines 385-389: the graduation check on the committed real_sol_reserves
reaches_threshold_mut(real_sol_reserves) == real_sol_reserves > GRADUATION_THRESHOLD
reaches_threshold(real_sol_reserves) == real_sol_reserves >= GRADUATION_THRESHOLD

\* lines 375-389: the curve record a successful buy commits
buy_commit_mut(c, q) ==
    LET real_sol == c.real_sol_reserves + q.sol_to_curve
    IN  [c EXCEPT !.virtual_sol_reserves = c.virtual_sol_reserves + q.sol_to_curve,
                  !.virtual_token_reserves = q.new_virtual_tokens,
                  !.real_sol_reserves = real_sol,
                  !.real_token_reserves = c.real_token_reserves - q.tokens_out,
                  !.graduated = IF reaches_threshold(real_sol) THEN TRUE ELSE c.graduated]
buy_commit(c, q) ==
    LET real_sol == c.real_sol_reserves + q.sol_to_curve
    IN  [c EXCEPT !.virtual_sol_reserves = q.new_virtual_sol,
                  !.virtual_token_reserves = q.new_virtual_tokens,
                  !.real_sol_reserves = real_sol,
                  !.real_token_reserves = c.real_token_reserves - q.tokens_out,
                  !.graduated = IF reaches_threshold(real_sol) THEN TRUE ELSE c.graduated]

\* ------------------------------------------------------------------------
\* sell: the computation of lines 414-477 and 513-519
\* ------------------------------------------------------------------------
SellErr(e) ==
    [err |-> e, requested |-> 0, capped |-> FALSE, gross |-> 0, actual |-> 0,
     total_fee |-> 0, protocol_fee |-> 0, creator_fee |-> 0, net |-> 0,
     final_virtual_tokens |-> 0, final_virtual_sol |-> 0]

\* lines 439-456: <<sol_out_gross, actual_token_amount>>
settled_amounts_mut(capped, capped_sol, max_tokens, sol_out_requested, token_amount) ==
    IF capped THEN <<capped_sol, token_amount>> ELSE <<sol_out_requested, token_amount>>
settled_amounts(capped, capped_sol, max_tokens, sol_out_requested, token_amount) ==
    IF capped THEN <<capped_sol, max_tokens>> ELSE <<sol_out_requested, token_amount>>

sell_quote(c, token_amount, min_sol_out) ==
    LET invariant == c.virtual_sol_reserves * c.virtual_token_reserves
        new_virtual_tokens == c.virtual_token_reserves + token_amount
        new_virtual_sol == curve_quotient(invariant, new_virtual_tokens)
        sol_out_requested == c.virtual_sol_reserves - new_virtual_sol
        capped == sol_out_requested > c.real_sol_reserves
        capped_sol == c.real_sol_reserves
        target_virtual_sol == c.virtual_sol_reserves - capped_sol
        max_virtual_tokens == invariant \div target_virtual_sol
        max_tokens == AsU64(max_virtual_tokens) - c.virtual_token_reserves
        settled == settled_amounts(capped, capped_sol, max_tokens,
                                   sol_out_requested, token_amount)
        sol_out_gross == settled[1]
        actual_token_amount == settled[2]
        total_fee == bps_of(sol_out_gross, TOTAL_FEE_BPS)
        protocol_fee == bps_of(sol_out_gross, PROTOCOL_FEE_BPS)
        creator_fee == total_fee - protocol_fee
        sol_out_net == sol_out_gross - total_fee
        final_virtual_tokens == c.virtual_token_reserves + actual_token_amount
        final_virtual_sol == curve_quotient(invariant, final_virtual_tokens)
    IN  IF token_amount = 0 THEN SellErr("ZeroAmount")
        ELSE IF closed_for_trading(c) THEN SellErr("AlreadyGraduated")
        ELSE IF ~InU64(new_virtual_tokens) THEN SellErr("MathOverflow")
        ELSE IF sol_out_requested < 0 THEN SellErr("MathOverflow")
        ELSE IF capped /\ target_virtual_sol < 0 THEN SellErr("MathOverflow")
        ELSE IF capped /\ ~(target_virtual_sol > 0) THEN SellErr("InsufficientLiquidity")
        ELSE IF capped /\ max_tokens < 0 THEN SellErr("MathOverflow")
        ELSE IF total_fee < 0 \/ protocol_fee < 0 THEN SellErr("MathOverflow")
        ELSE IF creator_fee < 0 \/ sol_out_net < 0 THEN SellErr("MathOverflow")
        ELSE IF ~meets_floor(sol_out_net, min_sol_out) THEN SellErr("SlippageExceeded")
        ELSE [err |-> "Ok", requested |-> sol_out_requested, capped |-> capped,
              gross |-> sol_out_gross, actual |-> actual_token_amount,
              total_fee |-> total_fee, protocol_fee |-> protocol_fee,
              creator_fee |-> creator_fee, net |-> sol_out_net,
              final_virtual_tokens |-> final_virtual_tokens,
              final_virtual_sol |-> IF final_virtual_tokens = 0 THEN 0
                                    ELSE final_virtual_sol]

\* lines 521-528: the curve record a successful sell commits
sell_commit_forgets_tokens(c, q) ==
    [c EXCEPT !.virtual_sol_reserves = q.final_virtual_sol,
              !.virtual_token_reserves = q.final_virtual_tokens,
              !.real_sol_reserves = c.real_sol_reserves - q.gross]
sell_commit_mut(c, q) ==
    [c EXCEPT !.virtual_sol_reserves = q.final_virtual_sol,
              !.virtual_token_reserves = q.final_virtual_tokens,
              !.real_sol_reserves = c.real_sol_reserves - q.gross,
              !.real_token_reserves = c.real_token_reserves + q.actual,
              !.graduated = c.real_token_reserves + q.actual >= TOTAL_SUPPLY]
sell_commit(c, q) ==
    [c EXCEPT !.virtual_sol_reserves = q.final_virtual_sol,
              !.virtual_token_reserves = q.final_virtual_tokens,
              !.real_sol_reserves = c.real_sol_reserves - q.gross,
              !.real_token_reserves = c.real_token_reserves + q.actual]

\* ------------------------------------------------------------------------
\* Initial state: nothing deployed, the Config PDA not yet created
\* ------------------------------------------------------------------------
Init ==
    /\ config = EmptyConfig
    /\ curves = [m \in Mints |-> EmptyCurve]
    /\ lamports = [w \in Wallets |-> IF w \in Signers THEN StartLamports ELSE 0]
    /\ solVault = [m \in Mints |-> 0]
    /\ tokenBal = [m \in Mints |-> [o \in Owners |-> 0]]
    /\ last = NoCall
    /\ nops = 0

Call(op, signer, cv, m, amount, min_out) ==
    [NoCall EXCEPT !.op = op, !.signer = signer, !.curve = cv, !.mint = m,
                   !.amount = amount, !.min_out = min_out,
                   !.pre = IF cv \in Mints THEN curves[cv] ELSE EmptyCurve]

\* An instruction that returns an error: the transaction is rolled back.
Rejected(call, e) ==
    /\ last' = [call EXCEPT !.err = e]
    /\ UNCHANGED <<config, curves, lamports, solVault, tokenBal, nops>>

\* An instruction that returns an error after it has issued n mint or
\* transfer calls to the token or system program: the calls are rolled back
\* with the rest of the transaction.
RejectedAfter(call, e, n) == Rejected([call EXCEPT !.cpi_issued = n], e)

\* Exploration: a run commits at most MaxOps instructions and is followed up
\* to its first rejected instruction.  A rejected instruction leaves every
\* account as it was, so what can follow it is what can follow the state it
\* was submitted in.
CanCall == last.err = "Ok"
CanCommit == nops < MaxOps

\* lines 70-83, with the `init` constraint of Initialize (lines 722-729)
initialize(authority, fee_recipient) ==
    /\ CanCall
    /\ LET call == Call("initialize", authority, NoKey, NoKey, 0, 0)
       IN  IF config.initialized
           THEN Rejected(call, "AccountAlreadyInUse")
           ELSE /\ config' = [initialized |-> TRUE, authority |-> authority,
                              fee_recipient |-> fee_recipient,
                              total_tokens_created |-> 0, total_volume_sol |-> 0]
                /\ last' = call
                /\ CanCommit /\ nops' = nops + 1
                /\ UNCHANGED <<curves, lamports, solVault, tokenBal>>

\* lines 164-176: the freshly initialised curve record
new_curve(creator_key, mint_key, now) ==
    [initialized |-> TRUE, creator |-> creator_key, mint |-> mint_key,
     virtual_sol_reserves |-> INITIAL_VIRTUAL_SOL,
     virtual_token_reserves |-> INITIAL_VIRTUAL_TOKENS,
     real_sol_reserves |-> 0, real_token_reserves |-> TOTAL_SUPPLY,
     token_total_supply |-> TOTAL_SUPPLY, graduated |-> FALSE,
     migrated_to_raydium |-> FALSE, created_at |-> now]

\* lines 187-244: the initial buy made inside create_token
initial_buy_quote(initial_buy_lamports) ==
    LET sol_after_fee == bps_of(initial_buy_lamports, BPS_DENOMINATOR - TOTAL_FEE_BPS)
        new_virtual_sol == INITIAL_VIRTUAL_SOL + sol_after_fee
        invariant == INITIAL_VIRTUAL_SOL * INITIAL_VIRTUAL_TOKENS
        new_virtual_tokens == curve_quotient(invariant, new_virtual_sol)
        tokens_out == INITIAL_VIRTUAL_TOKENS - new_virtual_tokens
        total_fee == bps_of(initial_buy_lamports, TOTAL_FEE_BPS)
    IN  IF sol_after_fee < 0 \/ ~InU64(new_virtual_sol) THEN QuoteErr("MathOverflow")
        ELSE IF tokens_out < 0 \/ TOTAL_SUPPLY - tokens_out < 0 THEN QuoteErr("MathOverflow")
        ELSE IF total_fee < 0 THEN QuoteErr("MathOverflow")
        ELSE [err |-> "Ok", new_virtual_sol |-> new_virtual_sol,
              new_virtual_tokens |-> new_virtual_tokens, tokens_out |-> tokens_out,
              total_fee |-> total_fee, protocol_fee |-> 0, creator_fee |-> 0,
              sol_to_curve |-> initial_buy_lamports]

\* lines 238-244: the curve record after the initial buy
initial_buy_commit_mut(c, q) ==
    [c EXCEPT !.virtual_sol_reserves = q.new_virtual_sol,
              !.virtual_token_reserves = q.new_virtual_tokens,
              !.real_sol_reserves = q.sol_to_curve]
initial_buy_commit(c, q) ==
    [c EXCEPT !.virtual_sol_reserves = q.new_virtual_sol,
              !.virtual_token_reserves = q.new_virtual_tokens,
              !.real_sol_reserves = q.sol_to_curve,
              !.real_token_reserves = TOTAL_SUPPLY - q.tokens_out]

\* lines 178-181: the Config record after a creation
counted_mut(cfg) == [cfg EXCEPT !.total_tokens_created = @ + 1, !.total_volume_sol = @ + 1]
counted(cfg) == [cfg EXCEPT !.total_tokens_created = @ + 1]

\* lines 86-261, with the `init` constraints of CreateToken (lines 736-808).
\* token::mint_to (lines 112-123) is issued right after the three length
\* checks, before the counter update of line 180 and the initial buy.
\* The msg! of lines 257-258 divides by virtual_token_reserves / 1_000_000,
\* which is at least 1 for every u64 new_virtual_sol, so it cannot fail.
create_token(creator, m, lens, initial_buy_lamports) ==
    /\ CanCall
    /\ LET call == Call("create_token", creator, m, m, initial_buy_lamports, 0)
           q == initial_buy_quote(initial_buy_lamports)
           c0 == new_curve(creator, m, nops + 1)
       IN  IF ~config.initialized THEN Rejected(call, "AccountNotInitialized")
           ELSE IF curves[m].initialized THEN Rejected(call, "AccountAlreadyInUse")
           ELSE IF ~(lens[1] <= 32) THEN Rejected(call, "NameTooLong")
           ELSE IF ~(lens[2] <= 10) THEN Rejected(call, "SymbolTooLong")
           ELSE IF ~(lens[3] <= 200) THEN Rejected(call, "UriTooLong")
           ELSE IF ~InU64(config.total_tokens_created + 1)
                THEN RejectedAfter(call, "MathOverflow", 1)
           ELSE IF initial_buy_lamports > 0 /\ q.err # "Ok"
                THEN RejectedAfter(call, q.err, 1)
           ELSE IF initial_buy_lamports > 0 /\ lamports[creator] < initial_buy_lamports
                THEN RejectedAfter(call, "InsufficientFunds", 2)
           ELSE /\ config' = counted(config)
                /\ CanCommit /\ nops' = nops + 1
                /\ IF initial_buy_lamports > 0
                   THEN /\ curves' = [curves EXCEPT ![m] = initial_buy_commit(c0, q)]
                        /\ lamports' = [lamports EXCEPT ![creator] = @ - initial_buy_lamports]
                        /\ solVault' = [solVault EXCEPT ![m] = @ + initial_buy_lamports]
                        /\ tokenBal' = [tokenBal EXCEPT ![m][m] = TOTAL_SUPPLY - q.tokens_out,
                                                        ![m][creator] = @ + q.tokens_out]
                        /\ last' = [call EXCEPT !.out = q.tokens_out, !.actual = q.tokens_out,
                                                !.gross = initial_buy_lamports,
                                                !.total_fee = q.total_fee]
                   ELSE /\ curves' = [curves EXCEPT ![m] = c0]
                        /\ tokenBal' = [tokenBal EXCEPT ![m][m] = TOTAL_SUPPLY]
                        /\ last' = call
                        /\ UNCHANGED <<lamports, solVault>>

\* Credit of lamports to a wallet (the debit is booked by the caller)
Credit(l, to, amount) == [l EXCEPT ![to] = @ + amount]

\* The account constraints Buy and Sell share (lines 815-845, 882-912):
\* config, bonding_curve and mint must be initialised accounts, and the
\* sol_vault must be the PDA of [VAULT_SEED, mint] with the bump stored for
\* the curve.  The supplied mint is not compared with bonding_curve.mint.
trade_accounts(cv, m) ==
    IF ~config.initialized \/ ~curves[cv].initialized \/ ~curves[m].initialized
    THEN "AccountNotInitialized"
    ELSE IF sol_vault_bump(m) # sol_vault_bump(cv) THEN "ConstraintSeeds"
    ELSE "Ok"

TradeEvent(mint, trader, is_buy, sol_amount, token_amount, protocol_fee, creator_fee, c) ==
    [type |-> "TradeEvent", mint |-> mint, trader |-> trader, is_buy |-> is_buy,
     sol_amount |-> sol_amount, token_amount |-> token_amount,
     protocol_fee |-> protocol_fee, creator_fee |-> creator_fee,
     virtual_sol_reserves |-> c.virtual_sol_reserves,
     virtual_token_reserves |-> c.virtual_token_reserves]

\* lines 264-411
buy(buyer, cv, m, sol_amount, min_tokens_out) ==
    /\ CanCall
    /\ LET call == Call("buy", buyer, cv, m, sol_amount, min_tokens_out)
           c == curves[cv]
           q == buy_quote(c, sol_amount, min_tokens_out)
           c1 == buy_commit(c, q)
       IN  IF trade_accounts(cv, m) # "Ok" THEN Rejected(call, trade_accounts(cv, m))
           ELSE IF q.err # "Ok" THEN Rejected(call, q.err)
           ELSE IF lamports[buyer] < sol_amount
                THEN RejectedAfter(call, "InsufficientFunds",
                        IF lamports[buyer] < q.sol_to_curve THEN 1
                        ELSE IF lamports[buyer] < q.sol_to_curve + q.protocol_fee THEN 2
                        ELSE 3)
           ELSE IF tokenBal[m][cv] < q.tokens_out
                THEN RejectedAfter(call, "TokenInsufficientFunds", 4)
           ELSE IF ~InU64(c1.real_sol_reserves) \/ c1.real_token_reserves < 0
                THEN RejectedAfter(call, "MathOverflow", 4)
           ELSE /\ curves' = [curves EXCEPT ![cv] = c1]
                /\ lamports' = Credit(Credit(
                                  [lamports EXCEPT ![buyer] = @ - sol_amount],
                                  config.fee_recipient, q.protocol_fee),
                                  c.creator, q.creator_fee)
                /\ solVault' = [solVault EXCEPT ![m] = @ + q.sol_to_curve]
                /\ tokenBal' = [tokenBal EXCEPT ![m][cv] = @ - q.tokens_out,
                                                ![m][buyer] = @ + q.tokens_out]
                /\ last' = [call EXCEPT !.out = q.tokens_out, !.actual = q.tokens_out,
                                        !.gross = sol_amount,
                                        !.total_fee = q.total_fee,
                                        !.protocol_fee = q.protocol_fee,
                                        !.creator_fee = q.creator_fee,
                                        !.events = <<TradeEvent(c.mint, buyer, TRUE, sol_amount,
                                                       q.tokens_out, q.protocol_fee,
                                                       q.creator_fee, c1)>>]
                /\ CanCommit /\ nops' = nops + 1
                /\ UNCHANGED config

\* lines 414-547
sell(seller, cv, m, token_amount, min_sol_out) ==
    /\ CanCall
    /\ LET call == Call("sell", seller, cv, m, token_amount, min_sol_out)
           c == curves[cv]
           q == sell_quote(c, token_amount, min_sol_out)
           c1 == sell_commit(c, q)
       IN  IF trade_accounts(cv, m) # "Ok" THEN Rejected(call, trade_accounts(cv, m))
           ELSE IF q.err # "Ok" THEN Rejected(call, q.err)
           ELSE IF tokenBal[m][seller] < q.actual
                THEN RejectedAfter(call, "TokenInsufficientFunds", 1)
           ELSE IF solVault[m] < q.gross THEN RejectedAfter(call, "InsufficientFunds", 1)
           ELSE IF ~InU64(q.final_virtual_tokens) \/ q.final_virtual_tokens = 0
                THEN RejectedAfter(call, "MathOverflow", 1)
           ELSE IF c1.real_sol_reserves < 0 \/ ~InU64(c1.real_token_reserves)
                THEN RejectedAfter(call, "MathOverflow", 1)
           ELSE /\ curves' = [curves EXCEPT ![cv] = c1]
                /\ lamports' = Credit(Credit(Credit(lamports, seller, q.net),
                                  config.fee_recipient, q.protocol_fee),
                                  c.creator, q.creator_fee)
                /\ solVault' = [solVault EXCEPT ![m] = @ - q.gross]
                /\ tokenBal' = [tokenBal EXCEPT ![m][seller] = @ - q.actual,
                                                ![m][cv] = @ + q.actual]
                /\ last' = [call EXCEPT !.requested = q.requested, !.capped = q.capped,
                                        !.gross = q.gross, !.out = q.net,
                                        !.actual = q.actual,
                                        !.total_fee = q.total_fee,
                                        !.protocol_fee = q.protocol_fee,
                                        !.creator_fee = q.creator_fee,
                                        !.events = <<TradeEvent(c.mint, seller, FALSE, q.net,
                                                       q.actual, q.protocol_fee,
                                                       q.creator_fee, c1)>>]
                /\ CanCommit /\ nops' = nops + 1
                /\ UNCHANGED config

\* lines 612-616: the curve record release_for_migration commits
migrated_mut(c) ==
    [c EXCEPT !.migrated_to_raydium = TRUE, !.graduated = FALSE,
              !.real_sol_reserves = 0, !.real_token_reserves = 0]
migrated(c) ==
    [c EXCEPT !.migrated_to_raydium = TRUE,
              !.real_sol_reserves = 0, !.real_token_reserves = 0]

\* lines 560-561: <<sol_amount, token_amount>> release_for_migration moves
released_amounts_mut(c) == <<c.real_sol_reserves \div 2, c.real_token_reserves>>
released_amounts(c) == <<c.real_sol_reserves, c.real_token_reserves>>

\* lines 947 and 1011: constraint = authority.key() == config.authority
is_authority_mut(signer) == signer \in Signers
is_authority(signer) == signer = config.authority

\* lines 557-558 and 963-964: the lifecycle state a release requires
release_state_mut(c) == IF c.migrated_to_raydium THEN "AlreadyMigrated" ELSE "Ok"
release_state(c) ==
    IF ~c.graduated THEN "NotGraduated"
    ELSE IF c.migrated_to_raydium THEN "AlreadyMigrated"
    ELSE "Ok"

\* lines 551-630, with the constraints of ReleaseForMigration (lines 943-1003)
release_for_migration(authority, cv, token_mint, migration_wallet) ==
    /\ CanCall
    /\ LET call == Call("release_for_migration", authority, cv, token_mint, 0, 0)
           c == curves[cv]
           sol_amount == released_amounts(c)[1]
           token_amount == released_amounts(c)[2]
       IN  IF ~config.initialized \/ ~c.initialized \/ ~curves[token_mint].initialized
           THEN Rejected(call, "AccountNotInitialized")
           ELSE IF ~is_authority(authority) THEN Rejected(call, "Unauthorized")
           ELSE IF release_state(c) # "Ok" THEN Rejected(call, release_state(c))
           ELSE IF solVault[cv] < sol_amount THEN Rejected(call, "InsufficientFunds")
           ELSE IF tokenBal[token_mint][cv] < token_amount
                THEN RejectedAfter(call, "TokenInsufficientFunds", 1)
           ELSE /\ curves' = [curves EXCEPT ![cv] = migrated(c)]
                /\ lamports' = Credit(lamports, migration_wallet, sol_amount)
                /\ solVault' = [solVault EXCEPT ![cv] = @ - sol_amount]
                /\ tokenBal' = [tokenBal EXCEPT ![token_mint][cv] = @ - token_amount,
                                                ![token_mint][migration_wallet] = @ + token_amount]
                /\ last' = [call EXCEPT !.gross = sol_amount, !.actual = token_amount,
                                        !.events = <<[type |-> "MigrationReleasedEvent",
                                                      mint |-> c.mint,
                                                      sol_amount |-> sol_amount,
                                                      token_amount |-> token_amount,
                                                      migration_wallet |-> migration_wallet]>>]
                /\ CanCommit /\ nops' = nops + 1
                /\ UNCHANGED config

\* lines 634-656, with the constraints of ForceGraduate (lines 1007-1029)
force_graduate(authority, cv) ==
    /\ CanCall
    /\ LET call == Call("force_graduate", authority, cv, cv, 0, 0)
           c == curves[cv]
       IN  IF ~config.initialized \/ ~c.initialized
           THEN Rejected(call, "AccountNotInitialized")
           ELSE IF ~is_authority(authority) THEN Rejected(call, "Unauthorized")
           ELSE IF c.graduated THEN Rejected(call, "AlreadyGraduated")
           ELSE /\ curves' = [curves EXCEPT ![cv] = [c EXCEPT !.graduated = TRUE]]
                /\ last' = [call EXCEPT !.events = <<[type |-> "GraduationEvent",
                                                      mint |-> c.mint,
                                                      sol_raised |-> c.real_sol_reserves]>>]
                /\ CanCommit /\ nops' = nops + 1
                /\ UNCHANGED <<config, lamports, solVault, tokenBal>>

\* What a seller offers: nothing, one unit, a whole balance, the amount the
\* preceding buy delivered, and a whole balance under an unmeetable floor.
SellInputs ==
    {<<0, 0>>, <<1, 0>>}
        \cup UNION {{<<tokenBal[m][s], 0>>, <<tokenBal[m][s], Unmeetable>>} :
                       m \in Mints, s \in Traders}
        \cup (IF last.op = "buy" /\ last.err = "Ok" THEN {<<last.out, 0>>} ELSE {})

Next ==
    \/ \E a \in {"admin"}, f \in {"treasury"} : initialize(a, f)
    \/ \E s \in Signers, m \in Mints, i \in CreateInputs : create_token(s, m, i[1], i[2])
    \/ \E s \in Traders, cv \in Mints, m \in Mints, i \in BuyInputs :
          buy(s, cv, m, i[1], i[2])
    \/ \E s \in Traders, cv \in Mints, m \in Mints, i \in SellInputs :
          sell(s, cv, m, i[1], i[2])
    \/ \E s \in Signers, cv \in Mints, m \in Mints, w \in {"raydium"} :
          release_for_migration(s, cv, m, w)
    \/ \E s \in Signers, cv \in Mints : force_graduate(s, cv)

Spec == Init /\ [][Next]_vars

\* ========================================================================
\* Properties
\* ========================================================================

\* The last instruction was a committed trade
Bought == last.op = "buy" /\ last.err = "Ok"
Sold == last.op = "sell" /\ last.err = "Ok"

\* C1: on every curve the pair (graduated, migrated_to_raydium) only
\* advances Active -> Graduated -> Migrated: no step resets a flag that is
\* set, and no step leaves a curve migrated but not graduated.
C1_LifecycleOnlyAdvances ==
    [][\A m \in Mints :
          /\ curves[m].graduated => curves'[m].graduated
          /\ curves[m].migrated_to_raydium => curves'[m].migrated_to_raydium
          /\ curves'[m].migrated_to_raydium => curves'[m].graduated]_vars

C1_Witness ==
    /\ last.op = "release_for_migration" /\ last.err = "Ok"
    /\ last.pre.graduated /\ ~last.pre.migrated_to_raydium
    /\ curves[last.curve].graduated /\ curves[last.curve].migrated_to_raydium

\* C2: a buy or sell of a non-zero amount submitted against a graduated
\* curve (migrated or not), with accounts that pass the account constraints,
\* returns AlreadyGraduated and changes no curve, vault or wallet balance.
C2_GraduatedRejectsTrades ==
    [][(/\ last'.op \in {"buy", "sell"}
        /\ last'.amount > 0
        /\ last'.curve \in Mints /\ last'.mint \in Mints
        /\ curves[last'.curve].graduated
        /\ trade_accounts(last'.curve, last'.mint) = "Ok")
       => (/\ last'.err = "AlreadyGraduated"
           /\ UNCHANGED <<config, curves, lamports, solVault, tokenBal>>)]_vars

C2_Witness ==
    /\ last.op = "sell" /\ last.err = "AlreadyGraduated" /\ last.amount > 0
    /\ last.pre.graduated /\ last.pre.migrated_to_raydium
    /\ tokenBal[last.mint][last.signer] >= last.amount

\* C3: every curve that is Active (created, graduated = FALSE) has
\* real_sol_reserves < GRADUATION_THRESHOLD.
C3_ActiveBelowThreshold ==
    \A m \in Mints :
        (curves[m].initialized /\ ~curves[m].graduated)
            => curves[m].real_sol_reserves < GRADUATION_THRESHOLD

\* C4: a committed buy leaves real_sol_reserves at its pre-trade value +
\* sol_amount - total_fee and sets graduated exactly when that value is
\* >= GRADUATION_THRESHOLD.
C4_BuyGraduatesIffThreshold ==
    Bought =>
        LET total_fee == (last.amount * TOTAL_FEE_BPS) \div BPS_DENOMINATOR
            post == last.pre.real_sol_reserves + last.amount - total_fee
        IN  /\ ~last.pre.graduated
            /\ curves[last.curve].real_sol_reserves = post
            /\ curves[last.curve].graduated <=> (post >= GRADUATION_THRESHOLD)

C4_Witness ==
    /\ Bought
    /\ last.pre.real_sol_reserves < GRADUATION_THRESHOLD
    /\ curves[last.curve].real_sol_reserves = GRADUATION_THRESHOLD
    /\ curves[last.curve].graduated

\* The product of the virtual reserves of a curve record
Product(c) == c.virtual_sol_reserves * c.virtual_token_reserves

\* C5 (as claimed): every committed buy and sell leaves virtual_sol_reserves
\* * virtual_token_reserves exactly equal to its value before the trade.
C5_ProductExactlyPreserved ==
    (Bought \/ Sold) => Product(curves[last.curve]) = Product(last.pre)

\* C5 (amended): a committed buy or sell never increases the product and
\* lowers it by less than the post-trade reserve of the side that received
\* the input (virtual_sol_reserves for a buy, virtual_token_reserves for a
\* sell); the product of every curve stays at or below INITIAL_VIRTUAL_SOL *
\* INITIAL_VIRTUAL_TOKENS.
C5_ProductNeverGrows ==
    /\ (Bought \/ Sold) =>
          LET post == curves[last.curve]
              r == IF Bought THEN post.virtual_sol_reserves
                   ELSE post.virtual_token_reserves
          IN  /\ Product(post) <= Product(last.pre)
              /\ Product(post) > Product(last.pre) - r
    /\ \A m \in Mints :
          Product(curves[m]) <= INITIAL_VIRTUAL_SOL * INITIAL_VIRTUAL_TOKENS

C5_Witness ==
    /\ Sold /\ last.capped /\ last.actual > 0
    /\ Product(curves[last.curve]) < Product(last.pre)

\* C6: the amount paid out of the curve is rounded down: for a buy
\* (virtual_sol + sol_amount) * (virtual_tokens - tokens_out) >= virtual_sol
\* * virtual_tokens, and for an uncapped sell (virtual_tokens + token_amount)
\* * (virtual_sol - sol_out_gross) >= virtual_sol * virtual_tokens.
C6_PayoutRoundedDown ==
    /\ Bought =>
          (last.pre.virtual_sol_reserves + last.amount)
              * (last.pre.virtual_token_reserves - last.out) >= Product(last.pre)
    /\ (Sold /\ ~last.capped) =>
          (last.pre.virtual_token_reserves + last.amount)
              * (last.pre.virtual_sol_reserves - last.gross) >= Product(last.pre)

\* C7: when a committed buy of sol_amount is followed at once by the same
\* trader's sell, on the same curve, of exactly the tokens the buy
\* delivered, the sell's net proceeds sol_out_net are at most sol_amount.
C7_RoundTripNoGain ==
    [][(/\ Bought /\ last.mint = last.curve
        /\ last'.op = "sell" /\ last'.err = "Ok"
        /\ last'.signer = last.signer
        /\ last'.curve = last.curve /\ last'.mint = last.mint
        /\ last'.amount = last.out)
       => last'.out <= last.amount]_vars

RECURSIVE SumTokens(_, _)
SumTokens(m, holders) ==
    IF holders = {} THEN 0
    ELSE LET h == CHOOSE x \in holders : TRUE
         IN  tokenBal[m][h] + SumTokens(m, holders \ {h})

\* C8: on every curve that has not been migrated, real_token_reserves plus
\* the tokens of its mint held by the wallets equals token_total_supply, and
\* real_token_reserves equals the balance of the curve's token vault.
C8_SupplyConserved ==
    \A m \in Mints :
        (curves[m].initialized /\ ~curves[m].migrated_to_raydium) =>
            /\ curves[m].real_token_reserves + SumTokens(m, Wallets)
                  = curves[m].token_total_supply
            /\ curves[m].real_token_reserves = tokenBal[m][m]

\* C9: for every committed trade protocol_fee + creator_fee = total_fee,
\* total_fee = floor(base * 100 / 10000) and protocol_fee = floor(base * 50 /
\* 10000), where base is sol_amount for a buy and the gross (possibly
\* capped) SOL output for a sell; the TradeEvent carries the two shares.
C9_FeeConservation ==
    (Bought \/ Sold) =>
        LET base == IF Bought THEN last.amount ELSE last.gross
        IN  /\ last.total_fee = (base * TOTAL_FEE_BPS) \div BPS_DENOMINATOR
            /\ last.protocol_fee = (base * PROTOCOL_FEE_BPS) \div BPS_DENOMINATOR
            /\ last.protocol_fee + last.creator_fee = last.total_fee
            /\ last.events[1].protocol_fee = last.protocol_fee
            /\ last.events[1].creator_fee = last.creator_fee
            /\ Sold => last.out = last.gross - last.total_fee

C9_Witness ==
    /\ Sold /\ last.capped
    /\ last.protocol_fee > 0 /\ last.creator_fee > 0

\* C10: a committed sell whose curve-computed output exceeds
\* real_sol_reserves pays out exactly real_sol_reserves gross, pulls from
\* the seller floor(k / (virtual_sol_reserves - real_sol_reserves)) -
\* virtual_token_reserves tokens, which is less than the requested
\* token_amount, and emits a TradeEvent carrying that capped amount.
C10_CappedSellSettlement ==
    [][LET c == curves[last'.curve]
           k == Product(c)
           requested == c.virtual_sol_reserves
                          - (k \div (c.virtual_token_reserves + last'.amount))
           back_solved == (k \div (c.virtual_sol_reserves - c.real_sol_reserves))
                            - c.virtual_token_reserves
       IN  (/\ last'.op = "sell" /\ last'.err = "Ok"
            /\ requested > c.real_sol_reserves)
           => /\ last'.gross = c.real_sol_reserves
              /\ solVault[last'.mint] - solVault'[last'.mint] = c.real_sol_reserves
              /\ curves'[last'.curve].real_sol_reserves = 0
              /\ tokenBal[last'.mint][last'.signer]
                    - tokenBal'[last'.mint][last'.signer] = back_solved
              /\ curves'[last'.curve].real_token_reserves
                    = c.real_token_reserves + back_solved
              /\ back_solved < last'.amount
              /\ last'.events[1].token_amount = back_solved]_vars

C10_Witness ==
    /\ Sold /\ last.capped
    /\ last.gross = last.pre.real_sol_reserves /\ last.gross > 0
    /\ last.actual > 0 /\ last.actual < last.amount
    /\ last.events[1].token_amount = last.actual

\* The last instruction was a committed release_for_migration
Released == last.op = "release_for_migration" /\ last.err = "Ok"

C12_ReleaseOnlyWhenGraduated ==
    [][(/\ last'.op = "release_for_migration"
        /\ config.initialized /\ last'.signer = config.authority
        /\ curves[last'.curve].initialized /\ curves[last'.mint].initialized)
       => LET c == curves[last'.curve]
          IN  /\ ~c.graduated => last'.err = "NotGraduated"
              /\ c.migrated_to_raydium => last'.err = "AlreadyMigrated"
              /\ last'.err = "Ok" => (c.graduated /\ ~c.migrated_to_raydium)
              /\ last'.err # "Ok" =>
                    UNCHANGED <<config, curves, lamports, solVault, tokenBal>>]_vars

\* Two consecutive releases of one curve: the second is rejected
C12_Witness ==
    /\ last.op = "release_for_migration" /\ last.err = "AlreadyMigrated"
    /\ last.signer = config.authority
    /\ last.pre.graduated /\ last.pre.migrated_to_raydium
    /\ curves[last.curve] = last.pre
    /\ lamports["raydium"] > 0

\* C13: release_for_migration and force_graduate submitted on existing
\* accounts by a signer other than Config.authority return Unauthorized
\* whatever the lifecycle state of the curve, and change no curve field, no
\* Config field and no balance; every step that sets migrated_to_raydium,
\* and every step that sets graduated on a curve whose real_sol_reserves is
\* below GRADUATION_THRESHOLD, is an instruction signed by the authority.
C13_OnlyAuthority ==
    [][/\ (/\ last'.op \in {"release_for_migration", "force_graduate"}
           /\ config.initialized
           /\ curves[last'.curve].initialized /\ curves[last'.mint].initialized
           /\ last'.signer # config.authority)
          => /\ last'.err = "Unauthorized"
             /\ UNCHANGED <<config, curves, lamports, solVault, tokenBal>>
       /\ \A m \in Mints :
             /\ (~curves[m].migrated_to_raydium /\ curves'[m].migrated_to_raydium)
                   => (/\ last'.op = "release_for_migration"
                       /\ last'.signer = config.authority
                       /\ curves[m].graduated)
             /\ (/\ ~curves[m].graduated /\ curves'[m].graduated
                 /\ curves'[m].real_sol_reserves < GRADUATION_THRESHOLD)
                   => (/\ last'.op = "force_graduate"
                       /\ last'.signer = config.authority)]_vars

\* A release by another signer on a curve the authority could release
C13_Witness ==
    /\ last.op = "release_for_migration" /\ last.err = "Unauthorized"
    /\ last.signer # config.authority
    /\ last.pre.graduated /\ ~last.pre.migrated_to_raydium
    /\ last.pre.real_sol_reserves > 0
    /\ solVault[last.curve] = last.pre.real_sol_reserves
    /\ curves[last.curve] = last.pre

\* The errors of the program's own error enum that create_token, buy, sell
\* and release_for_migration return
ProgramErrors ==
    {"NameTooLong", "SymbolTooLong", "UriTooLong", "ZeroAmount", "AlreadyGraduated",
     "MathOverflow", "SlippageExceeded", "InsufficientLiquidity", "NotGraduated",
     "AlreadyMigrated"}

\* C14: whenever create_token, buy, sell or release_for_migration returns
\* one of the program's errors, the instruction has issued no mint or
\* transfer call before the error, and no Config field, curve field, vault
\* balance or wallet balance differs from its value before the call.
C14_ErrorsBeforeExternalCalls ==
    [][(/\ last'.op \in {"create_token", "buy", "sell", "release_for_migration"}
        /\ last'.err \in ProgramErrors)
       => (/\ last'.cpi_issued = 0
           /\ UNCHANGED <<config, curves, lamports, solVault, tokenBal>>)]_vars

\* C15: a buy or sell submitted against bonding curve A changes, of any
\* other curve B, neither the curve record nor the balance of its SOL vault
\* nor the balance of its token vault, whatever mint the caller supplies
\* next to A.
C15_CurvesIndependent ==
    [][last'.op \in {"buy", "sell"} =>
          \A b \in Mints \ {last'.curve} :
              /\ curves'[b] = curves[b]
              /\ solVault'[b] = solVault[b]
              /\ tokenBal'[b][b] = tokenBal[b][b]]_vars

\* C16: a committed buy of sol_amount that delivers tokens_out to the buyer
\* raises virtual_sol_reserves by the whole sol_amount and real_sol_reserves
\* by sol_amount - total_fee, lowers virtual_token_reserves and
\* real_token_reserves by tokens_out, takes sol_amount from the buyer and
\* credits protocol_fee to Config.fee_recipient and creator_fee to the
\* curve's creator.
C16_BuyCommit ==
    [][(last'.op = "buy" /\ last'.err = "Ok") =>
          LET cv == last'.curve
              buyer == last'.signer
              c == curves[cv]
              sol_amount == last'.amount
              tokens_out == tokenBal'[last'.mint][buyer] - tokenBal[last'.mint][buyer]
              total_fee == (sol_amount * TOTAL_FEE_BPS) \div BPS_DENOMINATOR
              protocol_fee == (sol_amount * PROTOCOL_FEE_BPS) \div BPS_DENOMINATOR
              creator_fee == total_fee - protocol_fee
              paid == [lamports EXCEPT ![buyer] = @ - sol_amount]
              fee_paid == [paid EXCEPT ![config.fee_recipient] = @ + protocol_fee]
          IN  /\ tokens_out = last'.out
              /\ curves'[cv].virtual_sol_reserves = c.virtual_sol_reserves + sol_amount
              /\ curves'[cv].virtual_token_reserves = c.virtual_token_reserves - tokens_out
              /\ curves'[cv].real_sol_reserves = c.real_sol_reserves + sol_amount - total_fee
              /\ curves'[cv].real_token_reserves = c.real_token_reserves - tokens_out
              /\ lamports' = [fee_paid EXCEPT ![c.creator] = @ + creator_fee]
              /\ solVault'[last'.mint] = solVault[last'.mint] + sol_amount - total_fee]_vars

C16_Witness ==
    /\ Bought
    /\ last.out > 0 /\ last.protocol_fee > 0 /\ last.creator_fee > 0
    /\ last.pre.creator # last.signer
    /\ lamports[config.fee_recipient] >= last.protocol_fee
    /\ curves[last.curve].virtual_sol_reserves = last.pre.virtual_sol_reserves + last.amount
    /\ curves[last.curve].real_sol_reserves
          = last.pre.real_sol_reserves + last.amount - last.total_fee

\* A committed buy on a curve as create_token without an initial buy leaves it
BoughtOnFreshCurve ==
    /\ Bought
    /\ last.pre.virtual_sol_reserves = INITIAL_VIRTUAL_SOL
    /\ last.pre.virtual_token_reserves = INITIAL_VIRTUAL_TOKENS
    /\ last.pre.real_sol_reserves = 0
    /\ last.pre.real_token_reserves = TOTAL_SUPPLY

\* C17 (as claimed): on a freshly created curve a buy of amount_in credits
\* net_to_curve = amount_in - floor(amount_in * 100 / 10000) to
\* real_sol_reserves and delivers INITIAL_VIRTUAL_TOKENS - floor(k /
\* (INITIAL_VIRTUAL_SOL + net_to_curve)) tokens, between 0 and
\* real_token_reserves.
C17_BuyPricedOnNet ==
    BoughtOnFreshCurve =>
        LET k == INITIAL_VIRTUAL_SOL * INITIAL_VIRTUAL_TOKENS
            net_to_curve == last.amount - ((last.amount * TOTAL_FEE_BPS) \div BPS_DENOMINATOR)
        IN  /\ curves[last.curve].real_sol_reserves = net_to_curve
            /\ last.out = INITIAL_VIRTUAL_TOKENS - (k \div (INITIAL_VIRTUAL_SOL + net_to_curve))
            /\ 0 <= last.out /\ last.out <= last.pre.real_token_reserves

\* C17 (amended): on a freshly created curve a buy of amount_in credits
\* net_to_curve = amount_in - floor(amount_in * 100 / 10000) to
\* real_sol_reserves and delivers INITIAL_VIRTUAL_TOKENS - floor(k /
\* (INITIAL_VIRTUAL_SOL + amount_in)) tokens, priced on the whole pre-fee
\* amount_in, between 0 and real_token_reserves.
C17_BuyPricedOnGross ==
    BoughtOnFreshCurve =>
        LET k == INITIAL_VIRTUAL_SOL * INITIAL_VIRTUAL_TOKENS
            net_to_curve == last.amount - ((last.amount * TOTAL_FEE_BPS) \div BPS_DENOMINATOR)
        IN  /\ curves[last.curve].real_sol_reserves = net_to_curve
            /\ last.out = INITIAL_VIRTUAL_TOKENS - (k \div (INITIAL_VIRTUAL_SOL + last.amount))
            /\ 0 <= last.out /\ last.out <= last.pre.real_token_reserves
            /\ tokenBal[last.mint][last.signer] >= last.out

C17_Witness ==
    /\ BoughtOnFreshCurve
    /\ last.total_fee > 0
    /\ curves[last.curve].real_sol_reserves = last.amount - last.total_fee
    /\ last.out > 0

\* C18: a committed sell debits the SOL vault of the curve it trades
\* against by exactly sol_out_gross = sol_out_net + protocol_fee +
\* creator_fee, credits sol_out_net to the seller, protocol_fee to
\* Config.fee_recipient and creator_fee to the curve's creator, never pays
\* out more than the real_sol_reserves held before the sell, and commits
\* real_sol_reserves -= sol_out_gross and real_token_reserves +=
\* actual_token_amount, the token amount pulled from the seller.
C18_SellSettlement ==
    [][(last'.op = "sell" /\ last'.err = "Ok") =>
          LET cv == last'.curve
              seller == last'.signer
              c == curves[cv]
              sol_out_gross == last'.out + last'.protocol_fee + last'.creator_fee
              actual_token_amount ==
                  tokenBal[last'.mint][seller] - tokenBal'[last'.mint][seller]
              net_paid == [lamports EXCEPT ![seller] = @ + last'.out]
              fee_paid == [net_paid EXCEPT ![config.fee_recipient] = @ + last'.protocol_fee]
          IN  /\ last'.gross = sol_out_gross
              /\ solVault' = [solVault EXCEPT ![cv] = @ - sol_out_gross]
              /\ lamports' = [fee_paid EXCEPT ![c.creator] = @ + last'.creator_fee]
              /\ sol_out_gross <= c.real_sol_reserves
              /\ curves'[cv].real_sol_reserves = c.real_sol_reserves - sol_out_gross
              /\ curves'[cv].real_token_reserves
                    = c.real_token_reserves + actual_token_amount
              /\ last'.actual = actual_token_amount]_vars

\* C19: a buy of a non-zero amount on an Active curve whose output is
\* computed (no overflow) returns SlippageExceeded exactly when
\* tokens_out < min_tokens_out, and a sell whose proceeds are computed
\* returns SlippageExceeded exactly when sol_out_net, the gross output
\* after the cap less the total fee, is < min_sol_out; a call rejected so
\* transfers nothing and leaves every curve as it was; a committed trade
\* delivers at least the caller's minimum.
C19_SlippageFloor ==
    [][(/\ last'.op \in {"buy", "sell"}
        /\ last'.curve \in Mints /\ last'.mint \in Mints
        /\ trade_accounts(last'.curve, last'.mint) = "Ok"
        /\ last'.amount > 0
        /\ ~curves[last'.curve].graduated)
       => LET c == curves[last'.curve]
              trader == last'.signer
              min_out == last'.min_out
              k == c.virtual_sol_reserves * c.virtual_token_reserves
              tokens_out == c.virtual_token_reserves
                              - (k \div (c.virtual_sol_reserves + last'.amount))
              requested == c.virtual_sol_reserves
                              - (k \div (c.virtual_token_reserves + last'.amount))
              capped == requested > c.real_sol_reserves
              target == c.virtual_sol_reserves - c.real_sol_reserves
              gross == IF capped THEN c.real_sol_reserves ELSE requested
              sol_out_net == gross - ((gross * TOTAL_FEE_BPS) \div BPS_DENOMINATOR)
              computed ==
                  IF last'.op = "buy"
                  THEN c.virtual_sol_reserves + last'.amount <= U64_MAX
                  ELSE /\ c.virtual_token_reserves + last'.amount <= U64_MAX
                       /\ capped => (target > 0 /\ k \div target <= U64_MAX)
                       /\ gross * TOTAL_FEE_BPS <= U64_MAX
              delivered == IF last'.op = "buy" THEN tokens_out ELSE sol_out_net
          IN  computed =>
                /\ last'.err = "SlippageExceeded" <=> delivered < min_out
                /\ last'.err = "SlippageExceeded" =>
                      UNCHANGED <<config, curves, lamports, solVault, tokenBal>>
                /\ last'.err = "Ok" =>
                      /\ last'.out = delivered /\ delivered >= min_out
                      /\ last'.op = "buy" =>
                            tokenBal'[last'.mint][trader]
                               = tokenBal[last'.mint][trader] + delivered
                      /\ last'.op = "sell" =>
                            lamports'[trader] >= lamports[trader] + delivered]_vars

\* A sell of tokens the seller holds, rejected by an unmeetable floor
C19_Witness ==
    /\ last.op = "sell" /\ last.err = "SlippageExceeded"
    /\ last.amount > 0 /\ last.min_out > 0
    /\ tokenBal[last.mint][last.signer] >= last.amount
    /\ last.pre.real_sol_reserves > 0 /\ ~last.pre.graduated
    /\ curves[last.curve] = last.pre

\* A buy committed with the floor exactly at what it delivers
C19_BuyAtFloor ==
    /\ Bought /\ last.min_out > 0 /\ last.out = last.min_out

\* The last instruction emitted an event of type t
Emitted(t) == \E i \in 1..Len(last.events) : last.events[i].type = t

\* C20: every committed create_token has emitted a TokenCreatedEvent, every
\* committed buy and sell a TradeEvent carrying the virtual reserves the
\* trade left, every instruction that set graduated a GraduationEvent, and
\* every committed release_for_migration a MigrationReleasedEvent.
C20_EveryOperationEmits ==
    (last.err = "Ok" /\ last.op # "none") =>
        /\ last.op = "create_token" => Emitted("TokenCreatedEvent")
        /\ (Bought \/ Sold) =>
              \E i \in 1..Len(last.events) :
                  /\ last.events[i].type = "TradeEvent"
                  /\ last.events[i].virtual_sol_reserves
                        = curves[last.curve].virtual_sol_reserves
                  /\ last.events[i].virtual_token_reserves
                        = curves[last.curve].virtual_token_reserves
        /\ (last.curve \in Mints /\ ~last.pre.graduated /\ curves[last.curve].graduated)
              => Emitted("GraduationEvent")
        /\ Released => Emitted("MigrationReleasedEvent")

\* The GraduationEvents for mint m among the events of a call record
GraduationEvents(call, m) ==
    {i \in 1..Len(call.events) :
        call.events[i].type = "GraduationEvent" /\ call.events[i].mint = m}

\* C21: the buy that takes a curve's real_sol_reserves to or across
\* GRADUATION_THRESHOLD leaves the curve graduated and emits exactly one
\* GraduationEvent for it, and no instruction on a curve that is already
\* graduated emits another.
C21_OneGraduationEvent ==
    [][\A m \in Mints :
          /\ (/\ last'.op = "buy" /\ last'.err = "Ok" /\ last'.curve = m
              /\ curves[m].real_sol_reserves < GRADUATION_THRESHOLD
              /\ curves'[m].real_sol_reserves >= GRADUATION_THRESHOLD)
                => /\ curves'[m].graduated
                   /\ Cardinality(GraduationEvents(last', curves[m].mint)) = 1
          /\ (curves[m].initialized /\ curves[m].graduated)
                => GraduationEvents(last', curves[m].mint) = {}]_vars

\* C22: on a created curve no instruction changes creator, mint,
\* token_total_supply or created_at; a sell changes neither graduated nor
\* migrated_to_raydium; a buy does not change migrated_to_raydium; a
\* committed force_graduate changes the graduated flag of its curve and
\* nothing else.
C22_ImmutableFields ==
    [][/\ \A m \in Mints :
             curves[m].initialized =>
                /\ curves'[m].initialized
                /\ curves'[m].creator = curves[m].creator
                /\ curves'[m].mint = curves[m].mint
                /\ curves'[m].token_total_supply = curves[m].token_total_supply
                /\ curves'[m].created_at = curves[m].created_at
                /\ last'.op = "sell" =>
                      /\ curves'[m].graduated = curves[m].graduated
                      /\ curves'[m].migrated_to_raydium = curves[m].migrated_to_raydium
                /\ last'.op = "buy" =>
                      curves'[m].migrated_to_raydium = curves[m].migrated_to_raydium
       /\ (last'.op = "force_graduate" /\ last'.err = "Ok") =>
             /\ curves' = [curves EXCEPT ![last'.curve].graduated = TRUE]
             /\ UNCHANGED <<config, lamports, solVault, tokenBal>>]_vars

\* A sell that moved both reserves of a curve that stays Active
C22_Witness ==
    /\ Sold /\ last.gross > 0 /\ last.actual > 0
    /\ ~last.pre.graduated /\ ~curves[last.curve].graduated
    /\ curves[last.curve].creator = last.pre.creator
    /\ curves[last.curve].created_at = last.pre.created_at
    /\ curves[last.curve].real_sol_reserves < last.pre.real_sol_reserves

\* The curves that have been created
Created(cs) == {m \in Mints : cs[m].initialized}

\* C23: Config.total_tokens_created is the number of create_token calls
\* that have committed since initialize: a committed create_token adds
\* exactly 1 and changes no other Config field, a rejected one adds
\* nothing, and buy, sell, force_graduate and release_for_migration change
\* no Config field.
C23_CreationCounter ==
    [][/\ config'.initialized =>
             config'.total_tokens_created = Cardinality(Created(curves'))
       /\ (last'.op = "create_token" /\ last'.err = "Ok") =>
             /\ config' = [config EXCEPT !.total_tokens_created = @ + 1]
             /\ Cardinality(Created(curves')) = Cardinality(Created(curves)) + 1
       /\ (last'.op = "create_token" /\ last'.err # "Ok") =>
             (config' = config /\ Created(curves') = Created(curves))
       /\ last'.op \in {"buy", "sell", "force_graduate", "release_for_migration"} =>
             config' = config]_vars

\* Two creations, the second one counted
C23_Witness ==
    /\ last.op = "create_token" /\ last.err = "Ok"
    /\ config.total_tokens_created = 2
    /\ Cardinality(Created(curves)) = 2

\* What the last instruction of a step added to the net deposits of curve
\* m: the SOL paid in less the total fee on it for a buy and for the
\* initial buy of create_token, minus the gross SOL paid out for a sell.
NetDeposit(call, m) ==
    IF call.err # "Ok" \/ call.curve # m THEN 0
    ELSE IF call.op \in {"buy", "create_token"}
         THEN call.amount - ((call.amount * TOTAL_FEE_BPS) \div BPS_DENOMINATOR)
    ELSE IF call.op = "sell" THEN 0 - call.gross
    ELSE 0

\* C24: real_sol_reserves never exceeds the cumulative net deposits of the
\* curve: no step raises real_sol_reserves by more than the net deposit of
\* its instruction (both start at 0 when the curve is created).
C24_ReservesWithinNetDeposits ==
    [][\A m \in Mints :
          curves'[m].real_sol_reserves - curves[m].real_sol_reserves
              <= NetDeposit(last', m)]_vars

\* C25: a committed sell lowers virtual_sol_reserves by exactly the gross
\* SOL it takes out of real_sol_reserves; after a capped sell
\* virtual_sol_reserves is the back-solve target, the pre-trade
\* virtual_sol_reserves less the pre-trade real_sol_reserves.
C25_VirtualSolFollowsPayout ==
    Sold =>
        LET post == curves[last.curve]
        IN  /\ last.pre.real_sol_reserves - post.real_sol_reserves = last.gross
            /\ last.pre.virtual_sol_reserves - post.virtual_sol_reserves = last.gross
            /\ last.capped =>
                  /\ last.gross = last.pre.real_sol_reserves
                  /\ post.virtual_sol_reserves
                        = last.pre.virtual_sol_reserves - last.pre.real_sol_reserves

\* A capped sell whose token amount was back-solved from a division with
\* a remainder
C25_Witness ==
    /\ Sold /\ last.capped /\ last.gross > 0
    /\ Product(curves[last.curve]) < Product(last.pre)
    /\ curves[last.curve].virtual_sol_reserves
          = last.pre.virtual_sol_reserves - last.gross
    /\ curves[last.curve].real_sol_reserves = 0

\* C27: the lamports the program's instructions have moved into and out of
\* the SOL vault of a created curve always equal the curve's
\* real_sol_reserves.
C27_VaultCoversReserves ==
    \A m \in Mints :
        curves[m].initialized => solVault[m] = curves[m].real_sol_reserves

\* C28: on every created curve that has not been migrated,
\* real_token_reserves = virtual_token_reserves.
C28_RealEqualsVirtualTokens ==
    \A m \in Mints :
        (curves[m].initialized /\ ~curves[m].migrated_to_raydium)
            => curves[m].real_token_reserves = curves[m].virtual_token_reserves

\* A capped sell after an initial buy, on a curve still not migrated
C28_Witness ==
    /\ Sold /\ last.capped /\ last.actual > 0
    /\ ~curves[last.curve].migrated_to_raydium
    /\ last.pre.real_token_reserves < TOTAL_SUPPLY
    /\ curves[last.curve].real_token_reserves = last.pre.real_token_reserves + last.actual
    /\ curves[last.curve].virtual_token_reserves = curves[last.curve].real_token_reserves

\* The last instruction was a committed create_token with an initial buy
InitialBought == last.op = "create_token" /\ last.err = "Ok" /\ last.amount > 0

\* C29: every committed buy, sell and initial buy derives the new reserve
\* of the output side from the product P the curve has before the trade
\* (INITIAL_VIRTUAL_SOL * INITIAL_VIRTUAL_TOKENS for the initial buy), as
\* floor(P / r) with r the post-trade reserve of the side that received the
\* input, so that the post-trade product P' satisfies P - r < P' <= P.
C29_ProductDrift ==
    (Bought \/ Sold \/ InitialBought) =>
        LET post == curves[last.curve]
            P == IF InitialBought THEN INITIAL_VIRTUAL_SOL * INITIAL_VIRTUAL_TOKENS
                 ELSE Product(last.pre)
            r == IF Sold THEN post.virtual_token_reserves ELSE post.virtual_sol_reserves
            other == IF Sold THEN post.virtual_sol_reserves ELSE post.virtual_token_reserves
        IN  /\ r > 0
            /\ other = P \div r
            /\ P - r < Product(post)
            /\ Product(post) <= P

\* A buy on a curve whose product has already drifted below the initial one
C29_Witness ==
    /\ Bought
    /\ Product(last.pre) < INITIAL_VIRTUAL_SOL * INITIAL_VIRTUAL_TOKENS
    /\ Product(curves[last.curve]) < Product(last.pre)
    /\ (INITIAL_VIRTUAL_SOL * INITIAL_VIRTUAL_TOKENS)
          \div curves[last.curve].virtual_sol_reserves
             # curves[last.curve].virtual_token_reserves

\* C30: no buy and no sell returns InsufficientLiquidity: a committed buy
\* delivers at most the real_token_reserves held before it, and a sell
\* settled in the capped branch had virtual_sol_reserves -
\* real_sol_reserves >= 1 before it.
C30_InsufficientLiquidityUnreachable ==
    /\ last.op \in {"buy", "sell"} => last.err # "InsufficientLiquidity"
    /\ Bought => last.out <= last.pre.real_token_reserves
    /\ (Sold /\ last.capped) =>
          last.pre.virtual_sol_reserves - last.pre.real_sol_reserves >= 1

\* A capped sell on a curve holding SOL, followed up to its settlement
C30_Witness ==
    /\ Sold /\ last.capped
    /\ last.requested > last.pre.real_sol_reserves
    /\ last.pre.real_sol_reserves > 0
    /\ last.pre.virtual_sol_reserves > last.pre.real_sol_reserves

====
